---- MODULE Spec2Model ----
(***************************************************************************)
(* Index translation and selection geometry of the grid:                   *)
(*   - translations/maps/utils/physicallyIndexed.js (ordered list          *)
(*     transforms),                                                        *)
(*   - translations/mapCollection.js (registry of index maps),             *)
(*   - 3rdparty/walkontable/src/selection.js (selection geometry).         *)
(* Three specifications share the module: SpecList applies the pure list   *)
(* transforms to drawn inputs, Spec runs the map collections, SpecSelection *)
(* runs one Selection object.                                              *)
(***************************************************************************)
EXTENDS Integers, Sequences, FiniteSets, TLC

VARIABLES
  \* ---- ordered list transforms (SpecList)
  lst,            \* the list handed to the transforms (indexedValues)
  listCall,       \* the last call and its arguments
  listOut,        \* the list the last call returned
  \* ---- map collections (Spec)
  mappings,       \* collection -> sequence of <<name, map>> in insertion order
  indexedValues,  \* map object -> its list of values
  localHooks,     \* map object -> its 'change' hooks, each the collection it re-fires on
  registeredMaps, \* the module-level counter
  changeLog,      \* collection-level 'change' notifications delivered by the last call
  synced,         \* collection -> history of how its members were registered and mutated
  faulty,         \* the map objects whose init/insert/remove throws
  raised,         \* whether the last call threw to its caller, and at which member
  \* ---- selection (SpecSelection)
  cellRange,      \* Null or [from, to]
  selCall,        \* the last call on the selection, its arguments and return value
  prevRange,      \* cellRange before the last call
  added,          \* coordinates added since the selection was last empty, while only add was called
  \* ---- selection rendering (SpecDraw, SpecHandles, SpecClass)
  settings,       \* the settings the Selection was constructed with
  wtTable,        \* viewport instance -> the state of its table (rendered window, neighbours)
  tdClasses,      \* viewport instance -> the classes on its cells, as <<row, col, class>>
  borderEdgesDescriptor,      \* <<>> or the descriptor the last draw stored
  instanceSelectionHandles,   \* viewport instance -> its handle (0: none)
  selectionHandles,           \* the SelectionHandle objects created, in order
  classNames,     \* the class names in use, as depths of the base class
  drawn,          \* the last draw or handle lookup: its inputs and what it did
  relevant        \* the last getRelevantCell call: its inputs and the cell it returned

listVars == <<lst, listCall, listOut>>
mapVars == <<mappings, indexedValues, localHooks, registeredMaps, changeLog, synced,
            faulty, raised>>
selVars == <<cellRange, selCall, prevRange, added>>
drawVars == <<settings, wtTable, tdClasses, borderEdgesDescriptor, instanceSelectionHandles,
             selectionHandles, classNames, drawn, relevant>>
vars == <<lst, listCall, listOut,
          mappings, indexedValues, localHooks, registeredMaps, changeLog, synced,
          faulty, raised,
          cellRange, selCall, prevRange, added,
          settings, wtTable, tdClasses, borderEdgesDescriptor, instanceSelectionHandles,
          selectionHandles, classNames, drawn, relevant>>

\* ------------------------------------------------------------------ bounds
\* longest list drawn as an input of the list transforms
MaxLen == 2
\* list values are 0..MaxVal
MaxVal == 1
\* indexes in batches are 0..MaxIndex (so a batch can start past the end of a list)
MaxIndex == 3
\* longest batch of inserted indexes
MaxBatch == 2
\* longest list of removed indexes
MaxRemoved == 2

Min(a, b) == IF a < b THEN a ELSE b
Max(a, b) == IF a > b THEN a ELSE b

SeqsUpTo(S, n) == UNION {[1..k -> S] : k \in 0..n}

\* ------------------------------------------------------------------ values
\* JavaScript's undefined, as an optional integer.
Undefined == [defined |-> FALSE, val |-> 0]
Defined(n) == [defined |-> TRUE, val |-> n]

\* array[0]: undefined for an empty array.
First(array) == IF Len(array) = 0 THEN Undefined ELSE Defined(array[1])

\* Array.prototype.slice's relative index: undefined takes the default, a negative
\* index counts from the end, and the result is clamped to 0..len.
RelativeIndex(x, len, dflt) ==
  IF ~x.defined THEN dflt
  ELSE IF x.val < 0 THEN Max(len + x.val, 0)
  ELSE Min(x.val, len)

\* array.slice(start, end), positions counted from 0.
slice(array, start, end) ==
  LET k == RelativeIndex(start, Len(array), 0)
      f == RelativeIndex(end, Len(array), Len(array))
  IN  IF f <= k THEN <<>> ELSE SubSeq(array, k + 1, f)

\* insertedValuesMapping: a plain value, or a function of (insertedIndex, ordinalNumber).
PlainValue(v) == [isFunction |-> FALSE, value |-> v, fn |-> "none"]
Factory(f) == [isFunction |-> TRUE, value |-> 0, fn |-> f]
FactoryNames == {"index", "ordinal", "minusOne"}

\* insertedValuesMapping(insertedIndex, ordinalNumber) for the functions drawn as inputs.
CallFactory(f, insertedIndex, ordinalNumber) ==
  CASE f = "index" -> insertedIndex
    [] f = "ordinal" -> ordinalNumber
    [] OTHER -> 0 - 1

\* The callback of insertedIndexes.map in getListWithInsertedItems.
InsertedValue(insertedValuesMapping, insertedIndex, ordinalNumber) ==
  IF insertedValuesMapping.isFunction
    THEN CallFactory(insertedValuesMapping.fn, insertedIndex, ordinalNumber)
    ELSE insertedValuesMapping.value

\* ------------------------------------------------------------------ physicallyIndexed.js
\* A plausible slip: the tail is taken one position too far.
getListWithInsertedItemsSkipOne(list, insertionIndex, insertedIndexes, insertedValuesMapping) ==
  LET firstInsertedIndex == First(insertedIndexes)
  IN  slice(list, Defined(0), firstInsertedIndex)
      \o [k \in 1..Len(insertedIndexes) |->
            InsertedValue(insertedValuesMapping, insertedIndexes[k], k - 1)]
      \o slice(list, IF firstInsertedIndex.defined
                       THEN Defined(firstInsertedIndex.val + 1) ELSE Undefined, Undefined)

getListWithInsertedItems(list, insertionIndex, insertedIndexes, insertedValuesMapping) ==
  LET firstInsertedIndex == First(insertedIndexes)
  IN  slice(list, Defined(0), firstInsertedIndex)
      \o [k \in 1..Len(insertedIndexes) |->
            InsertedValue(insertedValuesMapping, insertedIndexes[k], k - 1)]
      \o slice(list, firstInsertedIndex, Undefined)

\* removedIndexes.includes(index)
includes(array, x) == \E k \in 1..Len(array) : array[k] = x

\* arrayFilter(array, predicate): the elements the predicate keeps, in their order;
\* keep[i] is the predicate's result for the i-th element.
arrayFilter(array, keep) ==
  LET F[i \in 0..Len(array)] ==
        IF i = 0 THEN <<>>
        ELSE IF keep[i] THEN Append(F[i - 1], array[i]) ELSE F[i - 1]
  IN  F[Len(array)]

\* A plausible slip: the callback tests the value, not the position.
getListWithRemovedItemsByValue(list, removedIndexes) ==
  arrayFilter(list, [i \in 1..Len(list) |-> includes(removedIndexes, list[i]) = FALSE])

\* arrayFilter(indexedValues, (_, index) => removedIndexes.includes(index) === false)
getListWithRemovedItems(list, removedIndexes) ==
  arrayFilter(list, [i \in 1..Len(list) |-> includes(removedIndexes, i - 1) = FALSE])

\* ------------------------------------------------------------------ inputs of SpecList
Values == 0..MaxVal
\* A contiguous batch of n indexes starting at i.
ContiguousBatch(i, n) == [k \in 1..n |-> i + k - 1]
Indexes == 0..MaxIndex
\* The lists and batches of the documented scenarios, beside the bounded ones.
ScenarioList == <<0, 1, 2, 3, 4>>
ScenarioInserted == <<0, 1, 0 - 1, 0 - 1, 2, 3, 4>>
ScenarioBatch == <<2, 3>>
ScenarioRemoved == <<0, 3, 6>>
Lists == SeqsUpTo(Values, MaxLen) \cup {ScenarioList, ScenarioInserted}
\* Batches: the contiguous runs of indexes, their reversals, and the scenario's.
Batches ==
  {ContiguousBatch(i, n) : i \in Indexes, n \in 0..MaxBatch}
    \cup {[k \in 1..n |-> i + n - k] : i \in Indexes, n \in 0..MaxBatch}
    \cup {ScenarioBatch}
RemovedLists == SeqsUpTo(Indexes, MaxRemoved) \cup {ScenarioRemoved}
ValueMappings == {PlainValue(MaxVal)} \cup {Factory(f) : f \in FactoryNames}

NoListCall == [op |-> "none", index |-> 0, batch |-> <<>>, mapping |-> PlainValue(0),
               removed |-> <<>>]

\* The positions the entries of a batch occupy after the insertion: the batch starts
\* at its first index.
PostInsertionPositions(insertedIndexes) ==
  [k \in 1..Len(insertedIndexes) |-> insertedIndexes[1] + k - 1]

\* A contiguous batch is a run i, i+1, ... of indexes.
IsContiguous(batch) == \A k \in 1..Len(batch) : batch[k] = batch[1] + k - 1

ListInit ==
  /\ lst \in Lists
  /\ listCall = NoListCall
  /\ listOut = <<>>

\* getListWithInsertedItems(lst, insertionIndex, insertedIndexes, insertedValuesMapping)
ListInsert ==
  \E insertionIndex \in Indexes, insertedIndexes \in Batches, m \in ValueMappings :
    /\ listCall.op = "none"
    /\ listOut' = getListWithInsertedItems(lst, insertionIndex, insertedIndexes, m)
    /\ listCall' = [op |-> "insert", index |-> insertionIndex, batch |-> insertedIndexes,
                    mapping |-> m, removed |-> <<>>]
    /\ UNCHANGED <<lst, mapVars, selVars, drawVars>>

\* getListWithRemovedItems(lst, removedIndexes)
ListRemove ==
  \E removedIndexes \in RemovedLists :
    /\ listCall.op = "none"
    /\ listOut' = getListWithRemovedItems(lst, removedIndexes)
    /\ listCall' = [op |-> "remove", index |-> 0, batch |-> <<>>, mapping |-> PlainValue(0),
                    removed |-> removedIndexes]
    /\ UNCHANGED <<lst, mapVars, selVars, drawVars>>

\* getListWithRemovedItems(getListWithInsertedItems(lst, i, B, v), B'), B' the
\* post-insertion positions of B.
ListInsertThenRemove ==
  \E insertionIndex \in Indexes, insertedIndexes \in Batches, m \in ValueMappings :
    LET positions == PostInsertionPositions(insertedIndexes)
    IN  /\ listCall.op = "none"
        /\ listOut' = getListWithRemovedItems(
                        getListWithInsertedItems(lst, insertionIndex, insertedIndexes, m),
                        positions)
        /\ listCall' = [op |-> "roundTrip", index |-> insertionIndex,
                        batch |-> insertedIndexes, mapping |-> m, removed |-> positions]
        /\ UNCHANGED <<lst, mapVars, selVars, drawVars>>

\* ------------------------------------------------------------------ claims C4..C6
\* The values a batch inserts: v itself, or v(B[k], k) for the k-th entry.
NewValues(batch, m) ==
  [k \in 1..Len(batch) |->
     IF m.isFunction
       THEN (CASE m.fn = "index" -> batch[k] [] m.fn = "ordinal" -> k - 1 [] OTHER -> 0 - 1)
       ELSE m.value]

\* L with the new values spliced in at the position of the batch's first index (at
\* the end when that index is past the end; nothing inserted for an empty batch).
ExpectedInsertion(list, batch, m) ==
  IF batch = <<>> THEN list
  ELSE LET at == Min(batch[1], Len(list))
       IN  SubSeq(list, 1, at) \o NewValues(batch, m) \o SubSeq(list, at + 1, Len(list))

\* C4 (as claimed): for every list L and every batch B, the empty batch included,
\* getListWithInsertedItems returns a list of length len(L) + len(B): L's elements
\* before position B[0], then the len(B) new values, then the rest of L.
C4_InsertSplicesBatch ==
  listCall.op = "insert" =>
    /\ Len(listOut) = Len(lst) + Len(listCall.batch)
    /\ listOut = ExpectedInsertion(lst, listCall.batch, listCall.mapping)

\* C4 restricted to the non-empty batches: there the splice is as claimed.
InsertSplicesNonEmptyBatch ==
  (listCall.op = "insert" /\ listCall.batch # <<>>) =>
    /\ Len(listOut) = Len(lst) + Len(listCall.batch)
    /\ listOut = ExpectedInsertion(lst, listCall.batch, listCall.mapping)

\* What the code returns for the empty batch: the list twice.
InsertOfEmptyBatchDoubles ==
  (listCall.op = "insert" /\ listCall.batch = <<>>) => listOut = lst \o lst

\* The positions of L (from 0) that are not among the removed ones.
KeptPositions(list, removed) ==
  {p \in 0..(Len(list) - 1) : \A k \in 1..Len(removed) : removed[k] # p}

\* C5: getListWithRemovedItems(L, R) returns exactly the elements of L whose position
\* is not in R, in their original relative order, for R unsorted, with duplicates or
\* with positions that are not in L.
C5_RemoveKeepsOthersInOrder ==
  listCall.op = "remove" =>
    LET kept == KeptPositions(lst, listCall.removed)
    IN  /\ Len(listOut) = Cardinality(kept)
        /\ \A p \in kept : listOut[Cardinality({q \in kept : q < p}) + 1] = lst[p + 1]

\* C5's case: positions [0,3,6] removed from [0,1,-1,-1,2,3,4] give [1,-1,2,3].
C5_Witness ==
  /\ listCall.op = "remove"
  /\ lst = ScenarioInserted
  /\ listCall.removed = ScenarioRemoved
  /\ listOut = <<1, 0 - 1, 2, 3>>

\* C5's harder case: an unsorted list of removed positions, one of them not in the list.
RemoveUnsortedWitness ==
  /\ listCall.op = "remove"
  /\ Len(lst) = 2
  /\ listCall.removed = <<MaxIndex, 0>>
  /\ listOut = <<lst[2]>>

\* The precondition of C6: the insertion index is within L and the batch is a
\* contiguous, non-empty run of indexes starting at it.
RoundTripCase ==
  /\ listCall.op = "roundTrip"
  /\ listCall.index <= Len(lst)
  /\ listCall.batch # <<>>
  /\ listCall.batch[1] = listCall.index
  /\ IsContiguous(listCall.batch)

\* C6: removing the positions the inserted entries occupy from the result of an
\* insertion gives back the original list.
C6_InsertThenRemoveIsIdentity ==
  RoundTripCase => listOut = lst

\* C6's case: a two-entry batch inserted in the middle of a two-element list.
C6_Witness ==
  /\ RoundTripCase
  /\ lst = <<0, 1>>
  /\ listCall.index = 1
  /\ Len(listCall.batch) = 2
  /\ listOut = lst

\* ------------------------------------------------------------------ index maps
Collections == {"A", "B"}
Names == {"x", "y", "z"}
MapIds == {"m1", "m2"}
\* The names drawn where every collection registers.
RegistryNames == {"x", "y"}
\* The registrations drawn where one collection takes every call: m1 can be
\* registered under two names, and so can m2.
Registrations == {<<"x", "m1">>, <<"y", "m1">>, <<"y", "m2">>, <<"z", "m2">>}
\* The registrations drawn where the subscriptions are followed: m1 can sit under two
\* names of A, and in A and B at once.
HookRegistrations ==
  {<<"A", "x", "m1">>, <<"A", "y", "m1">>, <<"B", "x", "m1">>, <<"B", "y", "m2">>}
\* longest list of values a map holds
MaxMapLen == 2
\* longest batch a fan-out inserts, and longest list of indexes it removes
MaxMapBatch == 1

\* The initial-value source each map was constructed with: a plain value here.
initValueOrFn(m) == IF m = "m1" THEN PlainValue(0) ELSE PlainValue(1)

\* IndexMap.init(length): the list becomes `length` initial values.
mapInit(m, length) ==
  [k \in 1..length |->
     IF initValueOrFn(m).isFunction
       THEN CallFactory(initValueOrFn(m).fn, k - 1, k - 1)
       ELSE initValueOrFn(m).value]

\* IndexMap.insert(insertionIndex, insertedIndexes): the list transform, with the
\* map's initial-value source.
mapInsert(m, list, insertionIndex, insertedIndexes) ==
  getListWithInsertedItems(list, insertionIndex, insertedIndexes, initValueOrFn(m))

\* IndexMap.remove(removedIndexes)
mapRemove(m, list, removedIndexes) == getListWithRemovedItems(list, removedIndexes)

\* The member call a fan-out makes on one map.
mapApply(m, list, call) ==
  CASE call.op = "initEvery" -> mapInit(m, call.length)
    [] call.op = "insertToEvery" -> mapInsert(m, list, call.index, call.batch)
    [] OTHER -> mapRemove(m, list, call.removed)

\* ------------------------------------------------------------------ mapCollection.js
\* this.mappings.has(uniqueName)
has(c, name) == \E k \in 1..Len(mappings[c]) : mappings[c][k].name = name

\* this.mappings.get(name): the position of the entry, 0 when there is none.
get(c, name) ==
  IF has(c, name) THEN CHOOSE k \in 1..Len(mappings[c]) : mappings[c][k].name = name ELSE 0

\* getLength()
getLength(c) == Len(mappings[c])

Lens(vals) == [m \in MapIds |-> Len(vals[m])]

\* Plausible slips in the iteration of the fan-out: the last member is left out; the
\* members are visited backwards.
forEachOrderSkipLast(n) == [k \in 1..(IF n > 1 THEN n - 1 ELSE n) |-> k]
forEachOrderReversed(n) == [k \in 1..n |-> n + 1 - k]

\* this.mappings.forEach: the positions of the n entries in the order they are
\* visited, which is the insertion order of the Map.
forEachOrder(n) == [k \in 1..n |-> k]

\* The 'change' hooks of map m run, after its list has been replaced as step `step`
\* of a fan-out of collection `by`: each hook re-fires 'change', carrying m, on the
\* collection that registered it, whose listeners run at once. An entry records the
\* call (by, position, done) and the lengths of the lists the listener finds (lens),
\* beside those before the call (before).
runMapHooks(m, by, position, step, vals) ==
  [h \in 1..Len(localHooks[m]) |->
     [coll |-> localHooks[m][h], map |-> m, by |-> by, position |-> position,
      done |-> step, lens |-> Lens(vals), before |-> Lens(indexedValues)]]

\* One fan-out: each member in turn gets the call, and fires its 'change' hooks when
\* its list has been replaced. The callback of forEach catches nothing: when the call
\* on a member throws, the iteration ends there and the exception reaches the caller
\* (thrown, at the position of that member).
RECURSIVE fanOutFrom(_, _, _, _, _, _)
fanOutFrom(c, order, step, call, vals, log) ==
  IF step > Len(order) THEN [vals |-> vals, log |-> log, thrown |-> FALSE, at |-> 0]
  ELSE LET m == mappings[c][order[step]].map
           vals2 == [vals EXCEPT ![m] = mapApply(m, vals[m], call)]
       IN  IF m \in faulty
             THEN [vals |-> vals, log |-> log, thrown |-> TRUE, at |-> order[step]]
             ELSE fanOutFrom(c, order, step + 1, call, vals2,
                             log \o runMapHooks(m, c, order[step], step, vals2))

fanOut(c, call) ==
  fanOutFrom(c, forEachOrder(Len(mappings[c])), 1, call, indexedValues, <<>>)

MemberMaps(c) == {mappings[c][k].map : k \in 1..Len(mappings[c])}

\* A plausible slip: the counter is incremented outside the has() test.
counterAfterRegisterAlways(counter, alreadyRegistered) == counter + 1

\* registeredMaps += 1, inside `if (this.mappings.has(uniqueName) === false)`
counterAfterRegister(counter, alreadyRegistered) ==
  IF alreadyRegistered = FALSE THEN counter + 1 ELSE counter

\* What has happened to a collection: initEvery was called on it; a map was
\* registered after that, or a member was changed through another collection
\* (outside); one map object was registered under two of its names (aliased).
FreshHistory == [initialised |-> FALSE, outside |-> FALSE, aliased |-> FALSE]
\* The last call returned to its caller.
NoRaise == [thrown |-> FALSE, at |-> 0]

MapInit ==
  /\ mappings = [c \in Collections |-> <<>>]
  /\ indexedValues = [m \in MapIds |-> <<>>]
  /\ localHooks = [m \in MapIds |-> <<>>]
  /\ registeredMaps = 0
  /\ changeLog = <<>>
  /\ synced = [c \in Collections |-> FreshHistory]
  /\ raised = NoRaise

\* register(uniqueName, map)
Register(c, name, m) ==
  /\ IF has(c, name) = FALSE
       THEN /\ mappings' = [mappings EXCEPT ![c] = Append(@, [name |-> name, map |-> m])]
            /\ localHooks' = [localHooks EXCEPT ![m] = Append(@, c)]
            /\ synced' = [synced EXCEPT
                 ![c].outside = @ \/ synced[c].initialised,
                 ![c].aliased = @ \/ m \in MemberMaps(c)]
       ELSE UNCHANGED <<mappings, localHooks, synced>>
  /\ registeredMaps' = counterAfterRegister(registeredMaps, has(c, name))
  /\ changeLog' = <<>>
  /\ raised' = NoRaise
  /\ UNCHANGED <<indexedValues, faulty, listVars, selVars, drawVars>>

\* unregister(name)
Unregister(c, name) ==
  LET k == get(c, name)
  IN  /\ IF k # 0
           THEN LET m == mappings[c][k].map
                IN  /\ localHooks' = [localHooks EXCEPT ![m] = <<>>]
                    /\ mappings' = [mappings EXCEPT ![c] =
                         SubSeq(@, 1, k - 1) \o SubSeq(@, k + 1, Len(@))]
                    /\ changeLog' = <<[coll |-> c, map |-> m, by |-> c, position |-> 0,
                                       done |-> 0, lens |-> Lens(indexedValues),
                                       before |-> Lens(indexedValues)]>>
                    /\ registeredMaps' = registeredMaps - 1
           ELSE /\ UNCHANGED <<localHooks, mappings, registeredMaps>>
                /\ changeLog' = <<>>
      /\ raised' = NoRaise
      /\ UNCHANGED <<indexedValues, synced, faulty, listVars, selVars, drawVars>>

\* What a fan-out on c leaves in the history of every collection.
historyAfterFanOut(c, op) ==
  [d \in Collections |->
     IF d = c
       THEN [synced[d] EXCEPT !.initialised = @ \/ op = "initEvery"]
       ELSE [synced[d] EXCEPT !.outside = @ \/ (MemberMaps(d) \cap MemberMaps(c) # {})]]

FanOutStep(c, call) ==
  \E r \in {fanOut(c, call)} :
      /\ \A m \in MapIds : Len(r.vals[m]) <= MaxMapLen
      /\ indexedValues' = r.vals
      /\ changeLog' = r.log
      /\ synced' = IF r.thrown
                     THEN [historyAfterFanOut(c, "thrown") EXCEPT ![c].outside = TRUE]
                     ELSE historyAfterFanOut(c, call.op)
      /\ raised' = [thrown |-> r.thrown, at |-> r.at]

\* The arguments of the three fan-out calls.
initEveryCall(length) ==
  [op |-> "initEvery", length |-> length, index |-> 0, batch |-> <<>>, removed |-> <<>>]
insertToEveryCall(insertionIndex, insertedIndexes) ==
  [op |-> "insertToEvery", length |-> 0, index |-> insertionIndex,
   batch |-> insertedIndexes, removed |-> <<>>]
removeFromEveryCall(removedIndexes) ==
  [op |-> "removeFromEvery", length |-> 0, index |-> 0, batch |-> <<>>,
   removed |-> removedIndexes]

\* initEvery(length)
InitEvery(c, length) ==
  /\ FanOutStep(c, initEveryCall(length))
  /\ UNCHANGED <<mappings, localHooks, registeredMaps, faulty, listVars, selVars, drawVars>>

\* insertToEvery(insertionIndex, insertedIndexes)
InsertToEvery(c, insertionIndex, insertedIndexes) ==
  /\ FanOutStep(c, insertToEveryCall(insertionIndex, insertedIndexes))
  /\ UNCHANGED <<mappings, localHooks, registeredMaps, faulty, listVars, selVars, drawVars>>

\* removeFromEvery(removedIndexes)
RemoveFromEvery(c, removedIndexes) ==
  /\ FanOutStep(c, removeFromEveryCall(removedIndexes))
  /\ UNCHANGED <<mappings, localHooks, registeredMaps, faulty, listVars, selVars, drawVars>>

\* getRegisteredMapsCounter()
getRegisteredMapsCounter == registeredMaps

MapIndexes == 0..(MaxMapLen - 1)
MapRemovedLists == SeqsUpTo(MapIndexes, MaxMapBatch)

\* ------------------------------------------------------------------ claims C1..C3
\* The lengths of the lists of the members of collection c.
MemberLengths(c) == {Len(indexedValues[m]) : m \in MemberMaps(c)}

\* The case of C1: initEvery was called on c, every member was registered before it,
\* and the members are changed by the calls on c alone.
RegisteredThenInitialised(c) ==
  synced[c].initialised /\ ~synced[c].outside

OwnFanOutNotifications ==
  {k \in 1..Len(changeLog) : changeLog[k].done >= 1 /\ changeLog[k].coll = changeLog[k].by}

RECURSIVE EntriesOf(_)
EntriesOf(cs) ==
  IF cs = {} THEN 0
  ELSE LET c == CHOOSE x \in cs : TRUE IN getLength(c) + EntriesOf(cs \ {c})
TotalEntries == EntriesOf(Collections)

\* C3: the counter exceeds its initial value, 0, by exactly the number of entries all
\* collections hold; registering an already-registered name and unregistering an
\* absent one leave it unchanged.
C3_CounterCountsEntries ==
  getRegisteredMapsCounter = TotalEntries

\* C3's case: both collections hold entries, one map is registered in both, and the
\* counter is 3.
C3_Witness ==
  /\ getLength("A") = 2
  /\ getLength("B") = 1
  /\ MemberMaps("A") \cap MemberMaps("B") # {}
  /\ getRegisteredMapsCounter = 3

\* C3's case: everything registered was unregistered again, and the counter is back
\* at its initial value.
C3_AllUnregistered ==
  /\ TotalEntries = 0
  /\ changeLog # <<>>
  /\ getRegisteredMapsCounter = 0

\* ------------------------------------------------------------------ claims C13..C15
\* How many times step k of the fan-out that left `log` was re-fired as a 'change' of
\* collection d.
ReFired(log, k, d) ==
  Cardinality({i \in 1..Len(log) : log[i].done = k /\ log[i].coll = d})

\* C13 (as claimed): every change of a map is re-fired exactly once on each
\* collection the map is registered in, and on no collection it is not registered
\* in, whatever register and unregister calls came before: also when the map is
\* registered in a second collection, or under a second name, and was unregistered
\* from one of them only.
C13_MemberChangeReFiredOnce ==
  [][\A c \in Collections :
       InitEvery(c, MaxMapLen) =>
         \A k \in 1..getLength(c), d \in Collections :
           ReFired(changeLog', k, d) =
             IF mappings[c][k].map \in MemberMaps(d) THEN 1 ELSE 0]_vars

\* The same, for the collections in which no map object sits under two names: the
\* case of one map in two collections.
ChangeReFiredOnceUnlessAliased ==
  [][\A c \in Collections :
       (InitEvery(c, MaxMapLen) /\ \A d \in Collections : ~synced[d].aliased) =>
         \A k \in 1..getLength(c), d \in Collections :
           ReFired(changeLog', k, d) =
             IF mappings[c][k].map \in MemberMaps(d) THEN 1 ELSE 0]_vars

\* C14: register leaves the values of every map as they were, those of the map it
\* registers included, so a map registered late keeps its own length; after
\* initEvery(n) every member has length n.
C14_RegisterKeepsValuesInitAligns ==
  [][/\ \A r \in Registrations :
          indexedValues' = indexedValues \/ ~Register("A", r[1], r[2])
     /\ \A n \in 0..MaxMapLen :
          (\A m \in MemberMaps("A") : Len(indexedValues'[m]) = n) \/ ~InitEvery("A", n)]_vars

\* C14's case: a map registered after the others were initialised and grown is a
\* member with a length of its own.
C14_Witness ==
  /\ getLength("A") = 2
  /\ MemberMaps("A") = MapIds
  /\ synced["A"].initialised /\ synced["A"].outside /\ ~synced["A"].aliased
  /\ changeLog = <<>>
  /\ Len(indexedValues[mappings["A"][1].map]) = MaxMapLen
  /\ Len(indexedValues[mappings["A"][2].map]) = 0

\* C14's case: initEvery brought a late member and an earlier one to one length.
InitAlignsWitness ==
  /\ MemberMaps("A") = MapIds
  /\ synced["A"].outside
  /\ Len(changeLog) = 2
  /\ \E m \in MapIds : changeLog[2].before[m] # changeLog[2].before[changeLog[2].map]
  /\ Cardinality(MemberLengths("A")) = 1

\* The calls drawn for a fan-out.
FanOutCalls ==
  {initEveryCall(n) : n \in 0..MaxMapLen}
    \cup {insertToEveryCall(i, ContiguousBatch(i, n)) : i \in MapIndexes, n \in 0..MaxMapBatch}
    \cup {removeFromEveryCall(r) : r \in MapRemovedLists}

\* The list of map m after it got the call n times.
RECURSIVE ApplyTimes(_, _, _, _)
ApplyTimes(m, call, list, n) ==
  IF n = 0 THEN list ELSE ApplyTimes(m, call, mapApply(m, list, call), n - 1)

\* The entries of collection c before position k that hold map m.
EntriesBefore(c, k, m) == Cardinality({j \in 1..(k - 1) : mappings[c][j].map = m})

\* The positions of the members of c that throw.
ThrowingEntries(c) == {k \in 1..getLength(c) : mappings[c][k].map \in faulty}

\* C15: when member k, the first one in registration order to throw, throws during a
\* fan-out, the exception reaches the caller, every map has got the call once for
\* each entry before k (nothing is rolled back) and not at all for the entries at
\* and after k.
C15_ThrowKeepsEarlierSkipsLater ==
  [][\A call \in FanOutCalls :
       (ThrowingEntries("A") # {} /\ FanOutStep("A", call)) =>
         LET k == CHOOSE j \in ThrowingEntries("A") : \A i \in ThrowingEntries("A") : j <= i
         IN  /\ raised'.thrown
             /\ raised'.at = k
             /\ \A m \in MapIds :
                  indexedValues'[m] =
                    ApplyTimes(m, call, indexedValues[m], EntriesBefore("A", k, m))]_vars

\* C15's case: the second of two members threw; the first has its new list, the
\* second is as it was.
C15_Witness ==
  /\ raised.thrown
  /\ raised.at = 2
  /\ getLength("A") = 2
  /\ MemberMaps("A") = MapIds
  /\ Len(changeLog) = 1
  /\ changeLog[1].lens[mappings["A"][1].map] # changeLog[1].before[mappings["A"][1].map]
  /\ Len(indexedValues[mappings["A"][1].map]) = changeLog[1].lens[mappings["A"][1].map]
  /\ Len(indexedValues[mappings["A"][2].map]) = changeLog[1].before[mappings["A"][2].map]

\* ------------------------------------------------------------------ cell coordinates and ranges
\* largest row and column index drawn as an input; rows and columns start at -1,
\* the header
MaxRow == 0
MaxCol == 0
\* most distinct coordinates added to a selection while the added set is tracked
MaxAdded == 3

Rows == (0 - 1)..MaxRow
Cols == (0 - 1)..MaxCol
CellCoords == [row : Rows, col : Cols]
Origin == [row |-> 0, col |-> 0]

\* cellRange === null
NullRange == [isNull |-> TRUE, from |-> Origin, to |-> Origin]

\* new CellRange(coords): the one-cell range.
CellRange(coords) == [isNull |-> FALSE, from |-> coords, to |-> coords]

\* CellCoords.isEqual: equality by value.
isEqual(a, b) == a.row = b.row /\ a.col = b.col

\* CellRange.getTopLeftCorner / getBottomRightCorner: component-wise min and max of
\* from and to.
getTopLeftCorner(range) ==
  [row |-> Min(range.from.row, range.to.row), col |-> Min(range.from.col, range.to.col)]
getBottomRightCorner(range) ==
  [row |-> Max(range.from.row, range.to.row), col |-> Max(range.from.col, range.to.col)]

\* CellRange.expand(coords): from and to become the corners of the bounding box of
\* the range and coords, when coords lies outside the range.
expand(range, coords) ==
  LET topLeft == getTopLeftCorner(range)
      bottomRight == getBottomRightCorner(range)
  IN  IF \/ coords.row < topLeft.row \/ coords.col < topLeft.col
         \/ coords.row > bottomRight.row \/ coords.col > bottomRight.col
        THEN [range EXCEPT
                !.from = [row |-> Min(topLeft.row, coords.row),
                          col |-> Min(topLeft.col, coords.col)],
                !.to = [row |-> Max(bottomRight.row, coords.row),
                        col |-> Max(bottomRight.col, coords.col)]]
        ELSE range

\* ------------------------------------------------------------------ selection.js
\* isEmpty()
isEmpty(range) == range.isNull

\* A plausible slip: add always starts a new range.
addAlwaysNew(range, coords) == CellRange(coords)

\* add(coords): the range after the call.
add(range, coords) ==
  IF isEmpty(range) THEN CellRange(coords) ELSE expand(range, coords)

\* A plausible slip: `to` is tested before `from`.
replaceToFirst(range, oldCoords, newCoords) ==
  IF ~isEmpty(range) /\ isEqual(range.to, oldCoords)
    THEN [range |-> [range EXCEPT !.to = newCoords], ret |-> TRUE]
  ELSE IF ~isEmpty(range) /\ isEqual(range.from, oldCoords)
    THEN [range |-> [range EXCEPT !.from = newCoords], ret |-> TRUE]
  ELSE [range |-> range, ret |-> FALSE]

\* replace(oldCoords, newCoords): the range after the call and the value returned.
replace(range, oldCoords, newCoords) ==
  IF ~isEmpty(range) /\ isEqual(range.from, oldCoords)
    THEN [range |-> [range EXCEPT !.from = newCoords], ret |-> TRUE]
  ELSE IF ~isEmpty(range) /\ isEqual(range.to, oldCoords)
    THEN [range |-> [range EXCEPT !.to = newCoords], ret |-> TRUE]
  ELSE [range |-> range, ret |-> FALSE]

\* clear()
clear(range) == NullRange

\* A plausible slip: the corners are read from `from` and `to` as they are.
getCornersFromTo(range) == <<range.from.row, range.from.col, range.to.row, range.to.col>>

\* getCorners(), on a non-empty selection
getCorners(range) ==
  LET topLeft == getTopLeftCorner(range)
      bottomRight == getBottomRightCorner(range)
  IN  <<topLeft.row, topLeft.col, bottomRight.row, bottomRight.col>>

NoSelCall == [op |-> "none", coords |-> Origin, newCoords |-> Origin, ret |-> FALSE,
              corners |-> <<>>]
NothingAdded == [pure |-> TRUE, coords |-> {}]

SelectionInit ==
  /\ cellRange = NullRange
  /\ selCall = NoSelCall
  /\ prevRange = NullRange
  /\ added = NothingAdded

\* selection.add(coords)
Add(coords) ==
  /\ ~added.pure \/ coords \in added.coords \/ Cardinality(added.coords) < MaxAdded
  /\ cellRange' = add(cellRange, coords)
  /\ prevRange' = cellRange
  /\ selCall' = [NoSelCall EXCEPT !.op = "add", !.coords = coords]
  /\ added' = IF added.pure THEN [added EXCEPT !.coords = @ \cup {coords}] ELSE added
  /\ UNCHANGED <<listVars, mapVars, drawVars>>

\* selection.replace(oldCoords, newCoords)
Replace(oldCoords, newCoords) ==
  LET r == replace(cellRange, oldCoords, newCoords)
  IN  /\ cellRange' = r.range
      /\ prevRange' = cellRange
      /\ selCall' = [NoSelCall EXCEPT !.op = "replace", !.coords = oldCoords,
                                      !.newCoords = newCoords, !.ret = r.ret]
      /\ added' = IF r.range # cellRange THEN [pure |-> FALSE, coords |-> {}] ELSE added
      /\ UNCHANGED <<listVars, mapVars, drawVars>>

\* selection.clear()
Clear ==
  /\ cellRange' = clear(cellRange)
  /\ prevRange' = cellRange
  /\ selCall' = [NoSelCall EXCEPT !.op = "clear"]
  /\ added' = NothingAdded
  /\ UNCHANGED <<listVars, mapVars, drawVars>>

\* selection.getCorners(), which reads the range of a non-empty selection
GetCorners ==
  /\ ~isEmpty(cellRange)
  /\ selCall' = [NoSelCall EXCEPT !.op = "getCorners", !.corners = getCorners(cellRange)]
  /\ prevRange' = cellRange
  /\ UNCHANGED <<cellRange, added, listVars, mapVars, drawVars>>

\* ------------------------------------------------------------------ claims C7..C10
\* Box <<r1, c1, r2, c2>> contains the coordinates / the box.
BoxHasCoords(box, coords) ==
  /\ box[1] <= coords.row /\ coords.row <= box[3]
  /\ box[2] <= coords.col /\ coords.col <= box[4]
BoxHasBox(box, inner) ==
  /\ box[1] <= inner[1] /\ inner[3] <= box[3]
  /\ box[2] <= inner[2] /\ inner[4] <= box[4]

\* C7: add on an empty selection makes the one-cell range from = to = coords; on a
\* non-empty selection the box getCorners() reports afterwards contains the box it
\* reported before and coords: the box never shrinks under add.
C7_AddGrowsBox ==
  selCall.op = "add" =>
    IF isEmpty(prevRange)
      THEN /\ ~isEmpty(cellRange)
           /\ cellRange.from = selCall.coords /\ cellRange.to = selCall.coords
      ELSE /\ ~isEmpty(cellRange)
           /\ BoxHasBox(getCorners(cellRange), getCorners(prevRange))
           /\ BoxHasCoords(getCorners(cellRange), selCall.coords)

\* C7's case, as in the documented scenario: a second add below and to the left of
\* the first cell; the box spans both.
C7_Witness ==
  /\ selCall.op = "add"
  /\ ~isEmpty(prevRange)
  /\ prevRange.from = [row |-> 0 - 1, col |-> 0] /\ prevRange.to = [row |-> 0 - 1, col |-> 0]
  /\ selCall.coords = [row |-> 0, col |-> 0 - 1]
  /\ getCorners(cellRange) = <<0 - 1, 0 - 1, 0, 0>>

\* The bounding box of a non-empty set of coordinates.
BoundingBox(S) ==
  <<CHOOSE r \in {c.row : c \in S} : \A c \in S : r <= c.row,
    CHOOSE k \in {c.col : c \in S} : \A c \in S : k <= c.col,
    CHOOSE r \in {c.row : c \in S} : \A c \in S : r >= c.row,
    CHOOSE k \in {c.col : c \in S} : \A c \in S : k >= c.col>>

\* C8: whatever the order in which a set of coordinates is added to an empty
\* selection, getCorners() ends as the bounding box of the set.
C8_CornersAreBoxOfAddedSet ==
  (added.pure /\ added.coords # {}) =>
    /\ ~isEmpty(cellRange)
    /\ getCorners(cellRange) = BoundingBox(added.coords)

\* C8's case: three coordinates were added, the last one inside the box of the
\* other two, which the order of the adds decides.
C8_Witness ==
  /\ added.pure
  /\ Cardinality(added.coords) = 3
  /\ selCall.op = "add"
  /\ ~isEmpty(prevRange)
  /\ getCorners(prevRange) = getCorners(cellRange)
  /\ selCall.coords \notin {prevRange.from, prevRange.to}

\* C9: on every non-empty selection that add and replace calls lead to, getCorners()
\* returns [min(from.row,to.row), min(from.col,to.col), max(from.row,to.row),
\* max(from.col,to.col)].
C9_CornersAreMinMax ==
  selCall.op = "getCorners" =>
    selCall.corners = <<Min(cellRange.from.row, cellRange.to.row),
                        Min(cellRange.from.col, cellRange.to.col),
                        Max(cellRange.from.row, cellRange.to.row),
                        Max(cellRange.from.col, cellRange.to.col)>>

\* C9's case: replace has left `from` below `to` in the rows and before it in the
\* columns, and getCorners() was called.
C9_Witness ==
  /\ selCall.op = "getCorners"
  /\ cellRange.from.row > cellRange.to.row
  /\ cellRange.from.col < cellRange.to.col
  /\ selCall.corners = <<cellRange.to.row, cellRange.from.col,
                         cellRange.from.row, cellRange.to.col>>

\* C10: replace(oldCoords, newCoords) on a non-empty selection whose `from` equals
\* oldCoords sets only `from` and returns true, also when `to` equals oldCoords;
\* else, when `to` equals oldCoords, it sets only `to` and returns true; otherwise,
\* and on an empty selection, the range is unchanged and false is returned.
C10_ReplaceFromThenTo ==
  selCall.op = "replace" =>
    IF ~prevRange.isNull /\ prevRange.from = selCall.coords
      THEN /\ selCall.ret = TRUE
           /\ cellRange = [prevRange EXCEPT !.from = selCall.newCoords]
    ELSE IF ~prevRange.isNull /\ prevRange.to = selCall.coords
      THEN /\ selCall.ret = TRUE
           /\ cellRange = [prevRange EXCEPT !.to = selCall.newCoords]
    ELSE /\ selCall.ret = FALSE
         /\ cellRange = prevRange

\* C10's case: `from` and `to` both equalled oldCoords; only `from` was replaced.
C10_Witness ==
  /\ selCall.op = "replace"
  /\ ~prevRange.isNull
  /\ prevRange.from = selCall.coords /\ prevRange.to = selCall.coords
  /\ selCall.newCoords # selCall.coords
  /\ selCall.ret = TRUE
  /\ cellRange.from = selCall.newCoords /\ cellRange.to = selCall.coords

\* C10's case, as in the documented scenario: the call that replaced `from` is
\* repeated and returns false.
ReplaceRepeatedWitness ==
  /\ selCall.op = "replace"
  /\ selCall.ret = FALSE
  /\ ~prevRange.isNull
  /\ prevRange.from = selCall.newCoords
  /\ cellRange = prevRange

\* ------------------------------------------------------------------ the viewport (wtTable)
\* last row and last column index of the grid whose windows are drawn
MaxWinRow == 1
MaxWinCol == 0
\* greatest layer level of a selection, and greatest depth of a class found on a cell
MaxLayer == 2

Instances == {"w1", "w2"}
GridRows == 0..MaxWinRow
GridCols == 0..MaxWinCol

\* The rendered rows (columns) of a window: none, or first..last. With none rendered
\* the first index is -1 and the last is null, which counts as 0 in arithmetic and
\* comparisons.
NoneRendered == [first |-> 0 - 1, last |-> 0, count |-> 0]
Rendered(first, last) == [first |-> first, last |-> last, count |-> last - first + 1]
IsRendered(span, index) == span.count > 0 /\ span.first <= index /\ index <= span.last

\* Where the neighbour overlay of a side is: there is none, its visible range begins
\* right where the visible range of this window ends, or it begins further away.
NeighbourKinds == {"none", "adjacent", "apart"}

\* wtTable.getRenderedRowsCount() and its companions
getRenderedRowsCount(table) == table.rows.count
getRenderedColumnsCount(table) == table.cols.count
getFirstRenderedRow(table) == table.rows.first
getFirstRenderedColumn(table) == table.cols.first
getLastRenderedRow(table) == table.rows.last
getLastRenderedColumn(table) == table.cols.last

\* The visible range of a window, taken to be its rendered range; -1 when nothing is
\* rendered.
getFirstVisibleRow(table) == table.rows.first
getLastVisibleRow(table) == IF table.rows.count = 0 THEN 0 - 1 ELSE table.rows.last
getLastVisibleColumn(table) == IF table.cols.count = 0 THEN 0 - 1 ELSE table.cols.last

\* What the neighbour of a side reports: northNeighbourTable().getLastVisibleRow(),
\* southNeighbourTable().getFirstVisibleRow(), eastNeighbourTable().getFirstVisibleColumn().
northLastVisibleRow(table) ==
  getFirstVisibleRow(table) - (IF table.north = "adjacent" THEN 1 ELSE 2)
southFirstVisibleRow(table) ==
  getLastVisibleRow(table) + (IF table.south = "adjacent" THEN 1 ELSE 2)
eastFirstVisibleColumn(table) ==
  getLastVisibleColumn(table) + (IF table.east = "adjacent" THEN 1 ELSE 2)

\* A cell element, and what a lookup returns where no cell is rendered (a number).
TD(row, col, from) == [isElement |-> TRUE, row |-> row, col |-> col, from |-> from]
NotRendered == [isElement |-> FALSE, row |-> 0, col |-> 0, from |-> "none"]

\* wtTable.getCell(coords): the cell this window renders at coords, else a number.
tableGetCell(table, row, col) ==
  IF IsRendered(table.rows, row) /\ IsRendered(table.cols, col)
    THEN TD(row, col, "table")
    ELSE NotRendered

\* wotInstance.getCell(coords, true): the cell whichever overlay renders at coords.
wotGetCell(table, row, col) ==
  IF IsRendered(table.rows, row) /\ IsRendered(table.cols, col) THEN TD(row, col, "table")
  ELSE IF table.topmost THEN TD(row, col, "overlay")
  ELSE NotRendered

\* wtTable.getColumnHeader(sourceColumn) / getRowHeader(sourceRow): the header
\* element of a rendered column (row).
hasColumnHeader(table, sourceColumn) == IsRendered(table.cols, sourceColumn)
hasRowHeader(table, sourceRow) == IsRendered(table.rows, sourceRow)

\* rowFilter.renderedToSource / columnFilter.renderedToSource: the source index of
\* the row (column) at a rendered position.
rowRenderedToSource(table, renderedRow) == renderedRow + table.rows.first
columnRenderedToSource(table, renderedColumn) == renderedColumn + table.cols.first

\* ------------------------------------------------------------------ selection.js: draw
\* A class name: the base class of the selection (depth 0), the base class with a
\* depth suffix, a band class, or the class the per-cell hook returned.
AreaClass(depth) == <<"area", depth>>
RowBandClass == <<"row", 0>>
ColumnBandClass == <<"column", 0>>
HookClass == <<"hook", 0>>

\* hasClass(element, className), for the base class at a depth
hasClass(classes, row, col, depth) == <<row, col, AreaClass(depth)>> \in classes

\* A plausible slip: the handle setting is never found.
hasSelectionHandleNever(s) == FALSE

\* hasSelectionHandle()
hasSelectionHandle(s) == s.border /\ s.cornerVisible

\* getSelectionHandleIfExists(wotInstance): 0 stands for undefined.
getSelectionHandleIfExists(handles, wotInstance) == handles[wotInstance]

\* A plausible slip: no lookup before the handle is created.
getSelectionHandleAlwaysNew(handles, created, wotInstance) ==
  [handles |-> [handles EXCEPT ![wotInstance] = Len(created) + 1],
   created |-> Append(created, [wot |-> wotInstance, state |-> "new"]),
   handle |-> Len(created) + 1]

\* getSelectionHandle(wotInstance): the handle found, else a new one, stored for the
\* instance.
getSelectionHandle(handles, created, wotInstance) ==
  LET found == getSelectionHandleIfExists(handles, wotInstance)
  IN  IF found # 0
        THEN [handles |-> handles, created |-> created, handle |-> found]
        ELSE [handles |-> [handles EXCEPT ![wotInstance] = Len(created) + 1],
              created |-> Append(created, [wot |-> wotInstance, state |-> "new"]),
              handle |-> Len(created) + 1]

\* linearClassNameGenerator(baseClassName, layerLevelOwner): calcClassName(element,
\* previousIndex), as the depth of the class name it returns. `classes` and the
\* coordinates stand for the element.
RECURSIVE calcClassName(_, _, _, _, _)
calcClassName(layerLevelOwner, classes, row, col, previousIndex) ==
  IF layerLevelOwner = 0 \/ previousIndex = 0 THEN 0
  ELSE LET index == (IF previousIndex >= 0 THEN previousIndex ELSE layerLevelOwner) - 1
       IN  IF hasClass(classes, row, col, index)
             THEN index + 1
             ELSE calcClassName(layerLevelOwner, classes, row, col, index)

\* classNameGenerator(TD)
classNameGenerator(s, classes, row, col) ==
  calcClassName(s.layerLevel, classes, row, col, 0 - 1)

\* addClassAtCoords(wotInstance, sourceRow, sourceColumn, className, markIntersections):
\* the classes of the cells and the classNames list after the call, and the class
\* applied (`none` when no cell is rendered at the coordinates).
addClassAtCoords(s, table, st, sourceRow, sourceColumn, className, markIntersections) ==
  IF tableGetCell(table, sourceRow, sourceColumn).isElement
    THEN LET cellClassName ==
               IF markIntersections
                 THEN AreaClass(classNameGenerator(s, st.classes, sourceRow, sourceColumn))
                 ELSE className
             names ==
               IF markIntersections /\ ~includes(st.names, cellClassName[2])
                 THEN Append(st.names, cellClassName[2])
                 ELSE st.names
         IN  [classes |-> st.classes \cup {<<sourceRow, sourceColumn, cellClassName>>},
              names |-> names,
              applied |-> st.applied \cup {<<sourceRow, sourceColumn, cellClassName>>}]
    ELSE st

\* The neighbour getRelevantCell asks for when this window renders no cell at
\* (row, col).
relevantContainer(row, col, firstRenderedRow, lastRenderedRow, lastRenderedColumn) ==
  IF \/ (row > lastRenderedRow /\ col > lastRenderedColumn)
     \/ (col > lastRenderedColumn /\ row < firstRenderedRow) THEN "diagonal"
  ELSE IF row > lastRenderedRow THEN "south"
  ELSE IF col > lastRenderedColumn THEN "east"
  ELSE IF row < firstRenderedRow THEN "north"
  ELSE "none"

\* getRelevantCell(wotInstance, row, col, firstRenderedRow, lastRenderedRow,
\* lastRenderedColumn): the cell of this window, else what wotInstance.getCell(coords,
\* true) finds, else undefined. The neighbour picked as `container` is not read.
getRelevantCell(table, row, col, firstRenderedRow, lastRenderedRow, lastRenderedColumn) ==
  LET td == tableGetCell(table, row, col)
  IN  IF td.isElement THEN td ELSE wotGetCell(table, row, col)

\* renderingOffsetNorth / renderingOffsetSouth / renderingOffsetEast
renderingOffsetNorth(table) ==
  IF table.north # "none" /\ northLastVisibleRow(table) = getFirstVisibleRow(table) - 1
    THEN 0 - 1 ELSE 0
renderingOffsetSouth(table) ==
  IF table.south # "none" /\ southFirstVisibleRow(table) = getLastVisibleRow(table) + 1
    THEN 1 ELSE 0
renderingOffsetEast(table) ==
  IF table.east # "none" /\ eastFirstVisibleColumn(table) = getLastVisibleColumn(table) + 1
    THEN 1 ELSE 0

\* A plausible slip: the first column is widened like the first row.
highlightRenderedWidenedWest(corners, table) ==
  <<Max(corners[1], getFirstRenderedRow(table) + renderingOffsetNorth(table)),
    Max(corners[2], getFirstRenderedColumn(table) - renderingOffsetEast(table)),
    Min(corners[3], getLastRenderedRow(table) + renderingOffsetSouth(table)),
    Min(corners[4], getLastRenderedColumn(table) + renderingOffsetEast(table))>>

\* highlightFirstRenderedRow, highlightFirstRenderedColumn, highlightLastRenderedRow,
\* highlightLastRenderedColumn
highlightRendered(corners, table) ==
  <<Max(corners[1], getFirstRenderedRow(table) + renderingOffsetNorth(table)),
    Max(corners[2], getFirstRenderedColumn(table)),
    Min(corners[3], getLastRenderedRow(table) + renderingOffsetSouth(table)),
    Min(corners[4], getLastRenderedColumn(table) + renderingOffsetEast(table))>>

\* A plausible slip: the left and right edges are taken for one another.
borderEdgesSwapped(highlight, corners) ==
  [top |-> highlight[1] = corners[1], right |-> highlight[2] = corners[2],
   bottom |-> highlight[3] = corners[3], left |-> highlight[4] = corners[4]]

\* hasTopEdge, hasRightEdge, hasBottomEdge, hasLeftEdge
borderEdges(highlight, corners) ==
  [top |-> highlight[1] = corners[1], right |-> highlight[4] = corners[4],
   bottom |-> highlight[3] = corners[3], left |-> highlight[2] = corners[2]]

\* A plausible slip: the clipped range is not tested for being inverted.
descriptorIgnoringInverted(s, table, highlight, corners) ==
  IF getRenderedRowsCount(table) # 0 /\ getRenderedColumnsCount(table) # 0 /\ s.border
    THEN LET firstTd == getRelevantCell(table, highlight[1], highlight[2], getFirstRenderedRow(table),
                                           getLastRenderedRow(table), getLastRenderedColumn(table))
             lastTd == getRelevantCell(table, highlight[3], highlight[4], getFirstRenderedRow(table),
                                        getLastRenderedRow(table), getLastRenderedColumn(table))
         IN  IF firstTd.isElement /\ lastTd.isElement
               THEN <<[firstTd |-> firstTd, lastTd |-> lastTd,
                       edges |-> borderEdges(highlight, corners)]>>
               ELSE <<>>
    ELSE <<>>

\* The border-edge descriptor draw stores: <<>>, or one descriptor.
descriptor(s, table, highlight, corners) ==
  IF /\ getRenderedRowsCount(table) # 0 /\ getRenderedColumnsCount(table) # 0
     /\ s.border /\ highlight[1] <= highlight[3] /\ highlight[2] <= highlight[4]
    THEN LET firstTd == getRelevantCell(table, highlight[1], highlight[2], getFirstRenderedRow(table),
                                           getLastRenderedRow(table), getLastRenderedColumn(table))
             lastTd ==
               IF highlight[1] = highlight[3] /\ highlight[2] = highlight[4]
                 THEN firstTd
                 ELSE getRelevantCell(table, highlight[3], highlight[4], getFirstRenderedRow(table),
                                        getLastRenderedRow(table), getLastRenderedColumn(table))
         IN  IF firstTd.isElement /\ lastTd.isElement
               THEN <<[firstTd |-> firstTd, lastTd |-> lastTd,
                       edges |-> borderEdges(highlight, corners)]>>
               ELSE <<>>
    ELSE <<>>

\* The elements of a finite set, in some order.
RECURSIVE SeqOf(_)
SeqOf(S) ==
  IF S = {} THEN <<>> ELSE LET x == CHOOSE y \in S : TRUE IN <<x>> \o SeqOf(S \ {x})

\* The cells <<row, col>> of a rectangle in the order of the loops of draw: rows
\* outside, columns inside.
RECURSIVE RowMajor(_, _, _, _, _)
RowMajor(row, col, firstColumn, lastRow, lastColumn) ==
  IF row > lastRow \/ firstColumn > lastColumn THEN <<>>
  ELSE IF col > lastColumn THEN RowMajor(row + 1, firstColumn, firstColumn, lastRow, lastColumn)
  ELSE <<(<<row, col>>)>> \o RowMajor(row, col + 1, firstColumn, lastRow, lastColumn)

\* addClassAtCoords at each cell of a sequence, in order.
RECURSIVE addClassAtEach(_, _, _, _, _, _)
addClassAtEach(s, table, st, cells, className, markIntersections) ==
  IF cells = <<>> THEN st
  ELSE addClassAtEach(s, table,
         addClassAtCoords(s, table, st, Head(cells)[1], Head(cells)[2], className,
                          markIntersections),
         Tail(cells), className, markIntersections)

\* The cells the column-band loop hands to addClassAtCoords: for every column of the
\* clipped range, the rows at the rendered positions that are below the clipped first
\* row or above the clipped last row.
columnBandCells(table, highlight) ==
  {<<rowRenderedToSource(table, renderedRow), sourceColumn>> :
     renderedRow \in {x \in 0..(getRenderedRowsCount(table) - 1) :
                        x < highlight[1] \/ x > highlight[3]},
     sourceColumn \in highlight[2]..highlight[4]}

\* The cells the row-band loop hands to addClassAtCoords.
rowBandCells(table, highlight) ==
  {<<sourceRow, columnRenderedToSource(table, renderedColumn)>> :
     sourceRow \in highlight[1]..highlight[3],
     renderedColumn \in {x \in 0..(getRenderedColumnsCount(table) - 1) :
                           x < highlight[2] \/ x > highlight[4]}}

\* The headers draw highlights.
highlightedHeaders(s, table, highlight) ==
  (IF getRenderedColumnsCount(table) # 0
        /\ (s.highlightHeaderClassName \/ s.highlightColumnClassName)
     THEN {<<"column", c>> : c \in {x \in highlight[2]..highlight[4] : hasColumnHeader(table, x)}}
     ELSE {})
  \cup
  (IF getRenderedRowsCount(table) # 0
        /\ (s.highlightHeaderClassName \/ s.highlightRowClassName)
     THEN {<<"row", r>> : r \in {x \in highlight[1]..highlight[3] : hasRowHeader(table, x)}}
     ELSE {})

\* The classes draw adds to the cells of the table, band classes first, then the
\* selection class of the body and the class of the per-cell hook.
drawClasses(s, table, highlight, classes, names) ==
  LET st0 == [classes |-> classes, names |-> names, applied |-> {}]
      st1 == IF getRenderedColumnsCount(table) # 0 /\ s.highlightColumnClassName
               THEN addClassAtEach(s, table, st0, SeqOf(columnBandCells(table, highlight)),
                                   ColumnBandClass, FALSE)
               ELSE st0
      st2 == IF getRenderedRowsCount(table) # 0 /\ s.highlightRowClassName
               THEN addClassAtEach(s, table, st1, SeqOf(rowBandCells(table, highlight)),
                                   RowBandClass, FALSE)
               ELSE st1
      body == IF getRenderedRowsCount(table) # 0 /\ getRenderedColumnsCount(table) # 0
                   /\ s.className
                THEN RowMajor(highlight[1], highlight[2], highlight[2], highlight[3],
                              highlight[4])
                ELSE <<>>
      st3 == addClassAtEach(s, table, st2, body, AreaClass(0), s.markIntersections)
      st4 == IF s.onAfterDrawSelection
               THEN addClassAtEach(s, table, st3, body, HookClass, FALSE)
               ELSE st3
  IN  [classes |-> st4.classes, names |-> st4.names, applied |-> st4.applied,
       hooked |-> {body[k] : k \in 1..Len(body)}]

\* The settings of a selection: whether a border, a corner handle, the class names
\* and the per-cell hook's class are configured, and the layer level.
Settings(border, cornerVisible, className, header, rowBand, columnBand, layerLevel) ==
  [border |-> border, cornerVisible |-> cornerVisible, className |-> className,
   highlightHeaderClassName |-> header, highlightRowClassName |-> rowBand,
   highlightColumnClassName |-> columnBand, markIntersections |-> FALSE,
   layerLevel |-> layerLevel, onAfterDrawSelection |-> FALSE]

\* A table: its rendered rows and columns, its neighbours, and whether the other
\* overlays render the cells it does not.
Table(rows, cols, north, south, east, topmost) ==
  [rows |-> rows, cols |-> cols, north |-> north, south |-> south, east |-> east,
   topmost |-> topmost]

PlainSettings == Settings(FALSE, FALSE, FALSE, FALSE, FALSE, FALSE, 0)
PlainTable == Table(Rendered(0, 0), Rendered(0, 0), "none", "none", "none", FALSE)

\* The neighbour tables getRelevantCell picks from.
Directions == {"diagonal", "south", "east", "north"}

\* What the neighbour tables of a window render at one position: for each direction,
\* whether that table renders a cell there. A neighbour that does not exist renders
\* nothing.
NeighbourCells(table) ==
  {f \in [Directions -> BOOLEAN] :
     /\ (table.north = "none" => ~f["north"])
     /\ (table.south = "none" => ~f["south"])
     /\ (table.east = "none" => ~f["east"])}

\* container.getCell({ row, col }) of the neighbour table in a direction.
neighbourGetCell(renders, container, row, col) ==
  IF container \in Directions /\ renders[container]
    THEN TD(row, col, container)
    ELSE NotRendered

NoRelevant ==
  [op |-> "none", wot |-> "w1", table |-> PlainTable, row |-> 0, col |-> 0,
   renders |-> [d \in Directions |-> FALSE], own |-> FALSE, container |-> "none",
   td |-> NotRendered]

NoDraw ==
  [op |-> "none", wot |-> "w1", empty |-> FALSE, range |-> NullRange, table |-> PlainTable,
   corners |-> <<>>, highlight |-> <<>>, headers |-> {}, applied |-> {}, hooked |-> {},
   beforeBorders |-> FALSE, handle |-> 0, handlesBefore |-> 0, hadDescriptor |-> FALSE,
   classesBefore |-> {}]

\* new Selection(settings, cellRange), but for the settings and the range
RenderInit ==
  /\ borderEdgesDescriptor = <<>>
  /\ instanceSelectionHandles = [i \in Instances |-> 0]
  /\ selectionHandles = <<>>
  /\ classNames = <<IF settings.className THEN 0 ELSE 0 - 1>>
  /\ drawn = NoDraw
  /\ relevant = NoRelevant

\* draw(wotInstance)
Draw(wotInstance) ==
  LET s == settings
      table == wtTable[wotInstance]
      found == getSelectionHandleIfExists(instanceSelectionHandles, wotInstance)
      record == [NoDraw EXCEPT !.op = "draw", !.wot = wotInstance, !.range = cellRange,
                               !.table = table, !.handlesBefore = Len(selectionHandles),
                               !.hadDescriptor = (borderEdgesDescriptor # <<>>),
                               !.classesBefore = tdClasses[wotInstance]]
  IN  /\ IF isEmpty(cellRange)
           THEN /\ borderEdgesDescriptor' = <<>>
                /\ selectionHandles' =
                     IF hasSelectionHandle(s) /\ found # 0
                       THEN [selectionHandles EXCEPT ![found].state = "disappeared"]
                       ELSE selectionHandles
                /\ drawn' = [record EXCEPT !.empty = TRUE]
                /\ UNCHANGED <<tdClasses, classNames, instanceSelectionHandles>>
           ELSE \E corners \in {getCorners(cellRange)} :
                \E highlight \in {highlightRendered(corners, table)} :
                \E c \in {drawClasses(s, table, highlight, tdClasses[wotInstance], classNames)} :
                \E h \in {getSelectionHandle(instanceSelectionHandles, selectionHandles,
                                             wotInstance)} :
                  /\ borderEdgesDescriptor' = descriptor(s, table, highlight, corners)
                  /\ tdClasses' = [tdClasses EXCEPT ![wotInstance] = c.classes]
                  /\ classNames' = c.names
                  /\ IF hasSelectionHandle(s)
                       THEN /\ instanceSelectionHandles' = h.handles
                            /\ selectionHandles' = [h.created EXCEPT ![h.handle].state = "appeared"]
                       ELSE UNCHANGED <<instanceSelectionHandles, selectionHandles>>
                  /\ drawn' = [record EXCEPT
                       !.corners = corners, !.highlight = highlight,
                       !.headers = highlightedHeaders(s, table, highlight),
                       !.applied = c.applied, !.hooked = c.hooked,
                       !.beforeBorders = TRUE,
                       !.handle = IF hasSelectionHandle(s) THEN h.handle ELSE 0]
      /\ UNCHANGED <<settings, wtTable, relevant, listVars, mapVars, selVars>>

\* getSelectionHandle(wotInstance), called from outside draw
GetSelectionHandle(wotInstance) ==
  \E h \in {getSelectionHandle(instanceSelectionHandles, selectionHandles, wotInstance)} :
    /\ instanceSelectionHandles' = h.handles
    /\ selectionHandles' = h.created
    /\ drawn' = [NoDraw EXCEPT !.op = "getSelectionHandle", !.wot = wotInstance,
                               !.handle = h.handle,
                               !.handlesBefore = Len(selectionHandles)]
    /\ UNCHANGED <<settings, wtTable, tdClasses, borderEdgesDescriptor, classNames,
                   relevant, listVars, mapVars, selVars>>

\* The viewport of an instance stops rendering rows, after a draw that stored a
\* descriptor.
Unrender(wotInstance) ==
  /\ wtTable[wotInstance].rows.count > 0
  /\ drawn.op = "draw" /\ drawn.wot = wotInstance /\ borderEdgesDescriptor # <<>>
  /\ wtTable' = [wtTable EXCEPT ![wotInstance].rows = NoneRendered]
  /\ UNCHANGED <<settings, tdClasses, borderEdgesDescriptor, instanceSelectionHandles,
                 selectionHandles, classNames, drawn, relevant, listVars, mapVars,
                 selVars>>

\* getRelevantCell(wotInstance, row, col, firstRenderedRow, lastRenderedRow,
\* lastRenderedColumn), called as draw calls it: on a corner of the clipped rectangle of
\* a window that renders rows and columns, with the bounds of that window.
GetRelevantCell(wotInstance) ==
  LET table == wtTable[wotInstance]
  IN  /\ ~isEmpty(cellRange)
      /\ getRenderedRowsCount(table) # 0 /\ getRenderedColumnsCount(table) # 0
      /\ \E highlight \in {highlightRendered(getCorners(cellRange), table)} :
           /\ highlight[1] <= highlight[3] /\ highlight[2] <= highlight[4]
           /\ \E corner \in {<<highlight[1], highlight[2]>>, <<highlight[3], highlight[4]>>},
                 renders \in NeighbourCells(table) :
                relevant' =
                  [op |-> "getRelevantCell", wot |-> wotInstance, table |-> table,
                   row |-> corner[1], col |-> corner[2], renders |-> renders,
                   own |-> tableGetCell(table, corner[1], corner[2]).isElement,
                   container |->
                     relevantContainer(corner[1], corner[2], getFirstRenderedRow(table),
                                       getLastRenderedRow(table),
                                       getLastRenderedColumn(table)),
                   td |-> getRelevantCell(table, corner[1], corner[2],
                                          getFirstRenderedRow(table),
                                          getLastRenderedRow(table),
                                          getLastRenderedColumn(table))]
      /\ UNCHANGED <<settings, wtTable, tdClasses, borderEdgesDescriptor,
                     instanceSelectionHandles, selectionHandles, classNames, drawn,
                     listVars, mapVars, selVars>>

\* ------------------------------------------------------------------ inputs of the draw specifications
Span(first, last) == {Rendered(p[1], p[2]) : p \in {q \in (first..last) \X (first..last) : q[1] <= q[2]}}
RowWindows == {NoneRendered} \cup Span(0, MaxWinRow)
ColWindows == {NoneRendered} \cup Span(0, MaxWinCol)
\* The neighbours drawn: none, all apart, one adjacent, all adjacent.
Neighbourhoods ==
  {<<"none", "none", "none">>, <<"apart", "apart", "apart">>,
   <<"adjacent", "none", "apart">>, <<"apart", "adjacent", "none">>,
   <<"none", "apart", "adjacent">>, <<"adjacent", "adjacent", "adjacent">>}
\* The documented scenario: rows 0..8 are rendered, the selection is the cell (10, 10).
ScenarioWindows ==
  {Table(Rendered(0, 8), Rendered(10, 10), "none", "none", "none", FALSE),
   Table(Rendered(0, 8), Rendered(10, 10), "adjacent", "adjacent", "adjacent", TRUE)}
ScenarioCell == [row |-> 10, col |-> 10]
Windows ==
  {Table(r, c, n[1], n[2], n[3], t) :
     r \in RowWindows, c \in ColWindows, n \in Neighbourhoods, t \in BOOLEAN}
  \cup ScenarioWindows
\* The ranges a Selection is constructed with: none, or a rectangle of cells and
\* headers that may reach one column past the widest window.
Rectangle(firstRow, firstColumn, lastRow, lastColumn) ==
  [isNull |-> FALSE, from |-> [row |-> firstRow, col |-> firstColumn],
   to |-> [row |-> lastRow, col |-> lastColumn]]
DrawRanges ==
  {NullRange, CellRange(ScenarioCell)}
  \cup {Rectangle(r[1], c[1], r[2], c[2]) :
          r \in {q \in ((0 - 1)..MaxWinRow) \X ((0 - 1)..MaxWinRow) : q[1] <= q[2]},
          c \in {q \in ((0 - 1)..(MaxWinCol + 1)) \X ((0 - 1)..(MaxWinCol + 1)) :
                   q[1] <= q[2]}}
\* Everything configured but the handle; a border alone; bands and the per-cell
\* hook's class, without a border.
DrawSettings ==
  {Settings(TRUE, FALSE, TRUE, TRUE, TRUE, TRUE, 0),
   Settings(TRUE, FALSE, FALSE, FALSE, FALSE, FALSE, 0),
   [Settings(FALSE, FALSE, TRUE, FALSE, TRUE, TRUE, 0) EXCEPT !.onAfterDrawSelection = TRUE]}
\* A border with a corner handle; a border without one; a handle setting without a
\* border.
HandleSettings ==
  {Settings(TRUE, TRUE, TRUE, FALSE, FALSE, FALSE, 0),
   Settings(TRUE, FALSE, TRUE, FALSE, FALSE, FALSE, 0),
   Settings(FALSE, TRUE, TRUE, FALSE, FALSE, FALSE, 0)}
HandleCoords == {Origin, [row |-> 0, col |-> 0 - 1]}
\* Selections of each layer level that mark intersections, over two rendered cells
\* that carry any classes of the base class.
ClassSettings ==
  {[Settings(FALSE, FALSE, TRUE, FALSE, FALSE, FALSE, l) EXCEPT !.markIntersections = TRUE] :
     l \in 0..MaxLayer}
ClassTable == Table(Rendered(0, 1), Rendered(0, 0), "none", "none", "none", FALSE)
ClassRange == Rectangle(0, 0, 1, 0)
CellClassSets == SUBSET {<<r, 0, AreaClass(d)>> : r \in 0..1, d \in 0..MaxLayer}

\* ------------------------------------------------------------------ claims C11, C12, C16..C20
\* Some overlay renders a cell at the coordinates: this window, or another one.
Resolved(table, row, col) ==
  (IsRendered(table.rows, row) /\ IsRendered(table.cols, col)) \/ table.topmost

\* C11: after draw the border-edge descriptor is non-empty exactly when the selection
\* is non-empty, a border is configured, the window has rendered rows and columns,
\* the clipped rectangle is not inverted on either axis and both of its corners
\* resolve to a cell; otherwise it is empty, whatever was stored before. The cell
\* (10, 10) drawn in a window of rows 0..8 has an inverted clipped row range and no
\* descriptor.
C11_DescriptorOnlyWhenDrawable ==
  drawn.op = "draw" =>
    /\ (borderEdgesDescriptor # <<>>) <=>
         /\ ~drawn.empty
         /\ settings.border
         /\ drawn.table.rows.count > 0 /\ drawn.table.cols.count > 0
         /\ drawn.highlight[1] <= drawn.highlight[3]
         /\ drawn.highlight[2] <= drawn.highlight[4]
         /\ Resolved(drawn.table, drawn.highlight[1], drawn.highlight[2])
         /\ Resolved(drawn.table, drawn.highlight[3], drawn.highlight[4])
    /\ (drawn.corners = <<10, 10, 10, 10>> /\ drawn.table.rows = Rendered(0, 8)) =>
         /\ drawn.highlight[1] > drawn.highlight[3]
         /\ borderEdgesDescriptor = <<>>

\* C11's case: a draw that found a descriptor stored and left none, the selection
\* being non-empty and a border configured.
C11_Witness ==
  /\ drawn.op = "draw" /\ ~drawn.empty
  /\ settings.border
  /\ drawn.hadDescriptor
  /\ borderEdgesDescriptor = <<>>

\* C11's case, the documented scenario, also with neighbours on every side and
\* overlays that render every cell.
ScenarioWitness ==
  /\ drawn.op = "draw"
  /\ drawn.corners = <<10, 10, 10, 10>>
  /\ drawn.table.rows = Rendered(0, 8)
  /\ drawn.table.topmost /\ drawn.table.south = "adjacent"
  /\ settings.border
  /\ drawn.highlight[3] = 9
  /\ borderEdgesDescriptor = <<>>

\* C11's case: a descriptor whose last corner another overlay renders.
DescriptorWitness ==
  /\ drawn.op = "draw"
  /\ borderEdgesDescriptor # <<>>
  /\ borderEdgesDescriptor[1].firstTd.from = "table"
  /\ borderEdgesDescriptor[1].lastTd.from = "overlay"

\* The handles created for an instance.
HandlesOf(wotInstance) ==
  {a \in 1..Len(selectionHandles) : selectionHandles[a].wot = wotInstance}

\* The handle created first for an instance, 0 when there is none.
FirstHandleOf(wotInstance) ==
  IF HandlesOf(wotInstance) = {} THEN 0
  ELSE CHOOSE a \in HandlesOf(wotInstance) : \A b \in HandlesOf(wotInstance) : a <= b

\* C12: over any draw and getSelectionHandle calls on any instances, at most one
\* handle is created per instance, every lookup returns the handle created first for
\* the instance, and distinct instances have distinct handles.
C12_OneHandlePerInstance ==
  /\ \A i \in Instances : Cardinality(HandlesOf(i)) <= 1
  /\ \A i \in Instances : instanceSelectionHandles[i] = FirstHandleOf(i)
  /\ \A i \in Instances, j \in Instances :
       (i # j /\ instanceSelectionHandles[i] # 0) =>
         instanceSelectionHandles[i] # instanceSelectionHandles[j]
  /\ (drawn.op \in {"draw", "getSelectionHandle"} /\ drawn.handle # 0) =>
       drawn.handle = FirstHandleOf(drawn.wot)

\* C12's case: both instances have a handle and the last call, a draw, got the one
\* created before for its instance (the second instance's).
C12_Witness ==
  /\ Len(selectionHandles) = 2
  /\ drawn.op = "draw"
  /\ drawn.handlesBefore = 2
  /\ drawn.handle = 1
  /\ selectionHandles[1].wot = "w2"
  /\ instanceSelectionHandles["w1"] = 2

\* C16: draw on an empty selection stops after clearing: no descriptor, the handle of
\* the instance disappears if there is one and a handle is configured, no handle is
\* created, no class is applied to a cell or a header, no hook is invoked.
C16_EmptyDrawOnlyClears ==
  (drawn.op = "draw" /\ drawn.empty) =>
    /\ borderEdgesDescriptor = <<>>
    /\ Len(selectionHandles) = drawn.handlesBefore
    /\ (settings.border /\ settings.cornerVisible
          /\ instanceSelectionHandles[drawn.wot] # 0) =>
         selectionHandles[instanceSelectionHandles[drawn.wot]].state = "disappeared"
    /\ drawn.applied = {} /\ drawn.headers = {}
    /\ tdClasses[drawn.wot] = drawn.classesBefore
    /\ drawn.hooked = {} /\ ~drawn.beforeBorders

\* C16's case: an empty selection drawn where a handle had appeared and a descriptor
\* was stored.
C16_Witness ==
  /\ drawn.op = "draw" /\ drawn.empty
  /\ drawn.hadDescriptor
  /\ instanceSelectionHandles[drawn.wot] # 0
  /\ drawn.classesBefore # {}
  /\ selectionHandles[instanceSelectionHandles[drawn.wot]].state = "disappeared"

\* C16's case: no handle exists for the instance, and none is created.
EmptyDrawNoHandleWitness ==
  /\ drawn.op = "draw" /\ drawn.empty
  /\ settings.border /\ settings.cornerVisible
  /\ instanceSelectionHandles[drawn.wot] = 0
  /\ Len(selectionHandles) = 1

\* By how much a bound of the window is widened towards a neighbour.
WidenedBy(kind) == IF kind = "adjacent" THEN 1 ELSE 0

\* C17: the clipped rectangle is the selection rectangle cut to the rendered rows and
\* columns of the window, its north, south and east bound moved out by one exactly
\* when the neighbour on that side is adjacent, its west bound never; it lies within
\* the selection rectangle.
C17_ClippedIsWidenedIntersection ==
  (drawn.op = "draw" /\ ~drawn.empty) =>
    LET t == drawn.table
        c == drawn.corners
        h == drawn.highlight
    IN  /\ t.rows.count > 0 =>
             /\ h[1] = Max(c[1], t.rows.first - WidenedBy(t.north))
             /\ h[3] = Min(c[3], t.rows.last + WidenedBy(t.south))
        /\ t.cols.count > 0 =>
             /\ h[2] = Max(c[2], t.cols.first)
             /\ h[4] = Min(c[4], t.cols.last + WidenedBy(t.east))
        /\ c[1] <= h[1] /\ h[3] <= c[3] /\ c[2] <= h[2] /\ h[4] <= c[4]

\* C17's case: the selection reaches past the window on every side; the clip is
\* widened to the south, where the neighbour is adjacent, and not to the north, where
\* it is apart, nor to the west.
C17_Witness ==
  /\ drawn.op = "draw" /\ ~drawn.empty
  /\ drawn.table.north = "apart" /\ drawn.table.south = "adjacent"
  /\ drawn.table.rows = Rendered(0, 0) /\ drawn.table.cols = Rendered(0, 0)
  /\ drawn.corners[1] < 0 /\ drawn.corners[2] < 0
  /\ drawn.corners[3] = 1
  /\ drawn.highlight = <<0, 0, 1, 0>>

\* C18: in a descriptor an edge is set exactly when the clipped bound of its side is
\* the bound of the selection on that side; for a clipped rectangle of one cell the
\* two corner cells are the same cell.
C18_EdgesWhereClipMeetsSelection ==
  (drawn.op = "draw" /\ borderEdgesDescriptor # <<>>) =>
    LET d == borderEdgesDescriptor[1]
        c == drawn.corners
        h == drawn.highlight
    IN  /\ d.edges.top <=> h[1] = c[1]
        /\ d.edges.right <=> h[4] = c[4]
        /\ d.edges.bottom <=> h[3] = c[3]
        /\ d.edges.left <=> h[2] = c[2]
        /\ (h[1] = h[3] /\ h[2] = h[4]) => d.firstTd = d.lastTd

\* C18's case: the selection is cut at the top and on the left, not at the bottom nor
\* on the right.
C18_Witness ==
  /\ drawn.op = "draw" /\ borderEdgesDescriptor # <<>>
  /\ ~borderEdgesDescriptor[1].edges.top /\ ~borderEdgesDescriptor[1].edges.left
  /\ borderEdgesDescriptor[1].edges.bottom /\ borderEdgesDescriptor[1].edges.right
  /\ drawn.highlight[1] < drawn.highlight[3]

\* The cells <<row, col, class>> of the rendered window in the columns (rows) of the
\* clipped range and outside its rows (columns).
ColumnBandExpected(t, h) ==
  {<<r, c, ColumnBandClass>> :
     r \in {x \in t.rows.first..t.rows.last : IsRendered(t.rows, x) /\ (x < h[1] \/ x > h[3])},
     c \in {x \in h[2]..h[4] : IsRendered(t.cols, x)}}
RowBandExpected(t, h) ==
  {<<r, c, RowBandClass>> :
     r \in {x \in h[1]..h[3] : IsRendered(t.rows, x)},
     c \in {x \in t.cols.first..t.cols.last : IsRendered(t.cols, x) /\ (x < h[2] \/ x > h[4])}}

\* C19 (as claimed): with a column (row) band class configured, draw applies it to
\* exactly the rendered cells of the columns (rows) of the clipped range whose row
\* (column) is outside the clipped body, whatever index the window starts at.
C19_BandOutsideClippedBody ==
  (drawn.op = "draw" /\ ~drawn.empty) =>
    /\ (settings.highlightColumnClassName /\ drawn.table.cols.count > 0) =>
         {a \in drawn.applied : a[3] = ColumnBandClass}
           = ColumnBandExpected(drawn.table, drawn.highlight)
    /\ (settings.highlightRowClassName /\ drawn.table.rows.count > 0) =>
         {a \in drawn.applied : a[3] = RowBandClass}
           = RowBandExpected(drawn.table, drawn.highlight)

\* The same, for the windows whose first rendered row and column is 0, where a
\* rendered position is a source index.
BandOutsideBodyInWindowFromZero ==
  (drawn.op = "draw" /\ ~drawn.empty
     /\ drawn.table.rows.first <= 0 /\ drawn.table.cols.first <= 0) =>
    /\ (settings.highlightColumnClassName /\ drawn.table.cols.count > 0) =>
         {a \in drawn.applied : a[3] = ColumnBandClass}
           = ColumnBandExpected(drawn.table, drawn.highlight)
    /\ (settings.highlightRowClassName /\ drawn.table.rows.count > 0) =>
         {a \in drawn.applied : a[3] = RowBandClass}
           = RowBandExpected(drawn.table, drawn.highlight)

\* The depths of the base class on a cell before the last draw.
DepthsBefore(row, col) ==
  {d \in 0..(MaxLayer + 1) : <<row, col, AreaClass(d)>> \in drawn.classesBefore}

Greatest(S) == CHOOSE x \in S : \A y \in S : y <= x

NoDuplicates(seq) == \A a \in 1..Len(seq), b \in 1..Len(seq) : a # b => seq[a] # seq[b]

\* C20 (as claimed): with intersections marked, the class applied to a body cell is
\* the base class at layer level 0, else the base class when the cell carries no
\* class of it, else the class one deeper than the deepest on the cell, whatever the
\* layer level and the classes on the cell; the class names generated are in
\* classNames, once each.
C20_IntersectionDepthIsNext ==
  (drawn.op = "draw" /\ ~drawn.empty /\ settings.markIntersections) =>
    /\ \A a \in {x \in drawn.applied : x[3][1] = "area"} :
         /\ a[3][2] =
              IF settings.layerLevel = 0 \/ DepthsBefore(a[1], a[2]) = {} THEN 0
              ELSE Greatest(DepthsBefore(a[1], a[2])) + 1
         /\ includes(classNames, a[3][2])
    /\ NoDuplicates(classNames)

\* What the generator does: only the depths below the layer level of the selection
\* are looked for on the cell.
IntersectionDepthBelowLayer ==
  (drawn.op = "draw" /\ ~drawn.empty /\ settings.markIntersections) =>
    /\ \A a \in {x \in drawn.applied : x[3][1] = "area"} :
         LET below == {d \in DepthsBefore(a[1], a[2]) : d < settings.layerLevel}
         IN  /\ a[3][2] = IF below = {} THEN 0 ELSE Greatest(below) + 1
             /\ includes(classNames, a[3][2])
    /\ NoDuplicates(classNames)

\* ------------------------------------------------------------------ getRelevantCell
\* The neighbour named by the bound the position exceeds: diagonal when the column is
\* past the last rendered column and the row is past the last or before the first
\* rendered row, else south, east, north.
ExceededBound(table, row, col) ==
  LET below == row > getLastRenderedRow(table)
      above == row < getFirstRenderedRow(table)
      right == col > getLastRenderedColumn(table)
  IN  IF right /\ (below \/ above) THEN "diagonal"
      ELSE IF below THEN "south"
      ELSE IF right THEN "east"
      ELSE IF above THEN "north"
      ELSE "none"

\* C21 (as claimed): a corner of the clipped rectangle that the window does not render
\* resolves to the cell the neighbour in the direction of the exceeded bound renders
\* there, and to none when that neighbour renders no cell there.
C21_RelevantCellFromChosenNeighbour ==
  (relevant.op = "getRelevantCell" /\ ~relevant.own) =>
    LET container == ExceededBound(relevant.table, relevant.row, relevant.col)
    IN  /\ container \in Directions
        /\ relevant.td.isElement =
             neighbourGetCell(relevant.renders, container, relevant.row,
                              relevant.col).isElement

\* What getRelevantCell does: the neighbour it picks is the one in the direction of
\* the exceeded bound, and the cell it returns is the one the lookup over the overlays
\* finds, whatever that neighbour renders.
RelevantCellIsOverlayLookup ==
  (relevant.op = "getRelevantCell" /\ ~relevant.own) =>
    /\ relevant.container = ExceededBound(relevant.table, relevant.row, relevant.col)
    /\ relevant.container \in Directions
    /\ relevant.td = wotGetCell(relevant.table, relevant.row, relevant.col)

\* A window renders its own corner: the cell returned is the window's.
RelevantCellOwnWindow ==
  (relevant.op = "getRelevantCell" /\ relevant.own) =>
    relevant.td = TD(relevant.row, relevant.col, "table")

\* ------------------------------------------------------------------ specifications
\* No list is handed to the list transforms.
ListIdle ==
  /\ lst = <<>>
  /\ listCall = NoListCall
  /\ listOut = <<>>

\* No map throws.
NoFault == faulty = {}
\* One map throws on every init, insert and remove.
OneFault == faulty \in {{m} : m \in MapIds}

\* A Selection with nothing configured, over tables of one cell.
DrawIdle ==
  /\ settings = PlainSettings
  /\ wtTable = [i \in Instances |-> PlainTable]
  /\ tdClasses = [i \in Instances |-> {}]
  /\ RenderInit

\* new Selection(settings, cellRange)
SelectionWith(range) ==
  /\ cellRange = range
  /\ selCall = NoSelCall
  /\ prevRange = NullRange
  /\ added = [pure |-> FALSE, coords |-> {}]

Init == ListIdle /\ MapInit /\ NoFault /\ SelectionInit /\ DrawIdle
InitList == ListInit /\ MapInit /\ NoFault /\ SelectionInit /\ DrawIdle
InitFault == ListIdle /\ MapInit /\ OneFault /\ SelectionInit /\ DrawIdle
\* A Selection constructed with any of the settings and ranges, before a window.
InitDraw ==
  /\ ListIdle /\ MapInit /\ NoFault
  /\ settings \in DrawSettings
  /\ \E range \in DrawRanges : SelectionWith(range)
  /\ \E table \in Windows : wtTable = [i \in Instances |-> table]
  /\ tdClasses = [i \in Instances |-> {}]
  /\ RenderInit
\* An empty Selection with or without a handle, before two viewport instances.
InitHandles ==
  /\ ListIdle /\ MapInit /\ NoFault /\ SelectionInit
  /\ settings \in HandleSettings
  /\ wtTable = [i \in Instances |-> PlainTable]
  /\ tdClasses = [i \in Instances |-> {}]
  /\ RenderInit
\* A Selection that marks intersections, before cells that carry classes.
InitClass ==
  /\ ListIdle /\ MapInit /\ NoFault
  /\ settings \in ClassSettings
  /\ SelectionWith(ClassRange)
  /\ wtTable = [i \in Instances |-> ClassTable]
  /\ \E classes \in CellClassSets : tdClasses = [i \in Instances |-> classes]
  /\ RenderInit

ListNext ==
  \/ ListInsert
  \/ ListRemove
  \/ ListInsertThenRemove

\* Collection A takes every call.
MapNext ==
  \/ \E r \in Registrations : Register("A", r[1], r[2])
  \/ \E name \in Names : Unregister("A", name)
  \/ \E length \in 0..MaxMapLen : InitEvery("A", length)
  \/ \E i \in MapIndexes, n \in 0..MaxMapBatch : InsertToEvery("A", i, ContiguousBatch(i, n))
  \/ \E removedIndexes \in MapRemovedLists : RemoveFromEvery("A", removedIndexes)

\* Every collection takes register and unregister.
RegistryNext ==
  \/ \E c \in Collections, name \in RegistryNames, m \in MapIds : Register(c, name, m)
  \/ \E c \in Collections, name \in RegistryNames : Unregister(c, name)

\* Every collection takes register, unregister and initEvery.
HooksNext ==
  \/ \E r \in HookRegistrations : Register(r[1], r[2], r[3])
  \/ \E c \in Collections, name \in RegistryNames : Unregister(c, name)
  \/ \E c \in Collections : InitEvery(c, MaxMapLen)

DrawNext ==
  \/ Draw("w1")
  \/ Clear
  \/ Unrender("w1")

HandlesNext ==
  \/ \E coords \in HandleCoords : Add(coords)
  \/ Clear
  \/ \E i \in Instances : Draw(i)
  \/ \E i \in Instances : GetSelectionHandle(i)

ClassNext == Draw("w1")

RelevantNext ==
  \/ GetRelevantCell("w1")
  \/ Clear

SelectionNext ==
  \/ \E coords \in CellCoords : Add(coords)
  \/ \E oldCoords \in CellCoords, newCoords \in CellCoords : Replace(oldCoords, newCoords)
  \/ Clear
  \/ GetCorners

\* The map collections.
Spec == Init /\ [][MapNext]_vars
\* The list transforms, applied to drawn inputs.
SpecList == InitList /\ [][ListNext]_vars
\* One Selection object.
SpecSelection == Init /\ [][SelectionNext]_vars
\* The registry of every collection and the counter.
SpecRegistry == Init /\ [][RegistryNext]_vars
\* The subscriptions of the collections to their members.
SpecHooks == Init /\ [][HooksNext]_vars
\* The map collections, with a member that throws.
SpecFault == InitFault /\ [][MapNext]_vars
\* One Selection drawn in one window.
SpecDraw == InitDraw /\ [][DrawNext]_vars
\* One Selection and its handles in two viewport instances.
SpecHandles == InitHandles /\ [][HandlesNext]_vars
\* The class names of a Selection that marks intersections.
SpecClass == InitClass /\ [][ClassNext]_vars
\* getRelevantCell on the corners draw hands it.
SpecRelevant == InitDraw /\ [][RelevantNext]_vars

====
